---- MODULE Spec2Model ----
(***************************************************************************)
(* The ChatBot component of UAVLogViewer (src/src/components/ChatBot.vue)  *)
(* as a state machine: the component's data, the flightData prop handed    *)
(* down by the parent view, the chat requests posted with axios, and one   *)
(* action per lifecycle hook, watcher, method call and request settlement. *)
(*                                                                         *)
(* Encoding of JavaScript values:                                          *)
(*   - a string is the sequence of its characters (each a one-character    *)
(*     TLA+ string), so trim, toString, toFixed and the template literals  *)
(*     are computed character by character;                                *)
(*   - a value that may be null or undefined is a sequence of at most one  *)
(*     element: <<>> when it is null/undefined, <<v>> when it is v;        *)
(*   - an object is a function from its own keys to their values, so a     *)
(*     missing key is a key outside DOMAIN;                                *)
(*   - altitudes and voltages are fixed-point numbers counted in           *)
(*     hundredths (525 is 5.25); timestamps are integers.                  *)
(*                                                                         *)
(* The browser runs every callback to completion on one thread, so each    *)
(* callback is one atomic action.  The parent replaces the flightData prop *)
(* by a new object and Vue runs the watcher in the same tick's flush,      *)
(* before any user event or request settlement, so the replacement and     *)
(* the watcher's handler are one action.  sendMessage and newMessage are   *)
(* the component's method and data: they can be invoked and written in     *)
(* any state after mount, whatever the template currently disables.        *)
(***************************************************************************)
EXTENDS Integers, Sequences, FiniteSets, TLC

VARIABLES
    lifecycle,       \* "data" -> "created" -> "mounted": how far the instance's construction got
    flightData,      \* the prop: mapping from message type to its series of records
    messages,        \* data().messages
    newMessage,      \* data().newMessage (v-model of the input)
    isLoading,       \* data().isLoading, the busy flag
    sessionId,       \* data().sessionId
    flightDuration,  \* data().flightDuration
    altitudeRange,   \* data().altitudeRange
    batteryRange,    \* data().batteryRange
    requests         \* every axios.post so far, in order: its body and how it settled

vars == <<lifecycle, flightData, messages, newMessage, isLoading, sessionId,
          flightDuration, altitudeRange, batteryRange, requests>>

(***************************************************************************)
(* Bounds and input sets                                                   *)
(***************************************************************************)
\* Requests the model lets the component post before it stops accepting sends.
MaxSends == 2

\* Values Date.now() may return at mount.
Clock == {7, 42}

\* Texts the user may leave in the input: "", " ", "hi", " hi ".
Inputs == { <<>>, <<" ">>, <<"h","i">>, <<" ","h","i"," ">> }

\* The `response` strings the backend may send.
Replies == { <<"o","k">> }

\* The empty mapping {} (the prop's default).
EmptyFlightData == [k \in {} |-> <<>>]

\* Flight logs the parent view may hand down.
FlightDataSet ==
    { EmptyFlightData,
      [GPS |-> <<[timestamp |-> 10], [timestamp |-> 135]>>,
       ATT |-> <<[alt |-> 100], [alt |-> 525], [roll |-> 3]>>,
       BAT |-> <<[volt |-> 1260], [volt |-> 1110]>>],
      [GPS |-> <<[timestamp |-> 30]>>],
      [GPS |-> <<>>, ATT |-> <<[roll |-> 3]>>, BAT |-> <<>>],
      [ATT |-> <<[alt |-> -25]>>, BAT |-> <<[curr |-> 2], [volt |-> 1200]>>] }

\* Records a series may hold in the logs used to exercise updateFlightInfo,
\* and the longest series among them.
MaxRecords == 3

\* The record {} (no field at all).
EmptyRecord == [k \in {} |-> 0]

GpsRecords == { [timestamp |-> 10], [timestamp |-> 135] }
AttRecords == { [alt |-> 100], [alt |-> 525], EmptyRecord }
BatRecords == { [volt |-> 1110], [curr |-> 2] }

\* The longest flight, in timestamp units, among the logs used to exercise
\* formatDuration.
MaxDuration == 130

\* Logs with a GPS series of every duration from 0 to MaxDuration, one that
\* runs backwards, one of a single record, and logs without GPS records.
DurationFlightDataSet ==
    { [GPS |-> <<[timestamp |-> 0], [timestamp |-> s]>>] : s \in 0..MaxDuration }
        \cup { [GPS |-> <<[timestamp |-> 135], [timestamp |-> 10]>>],
               [GPS |-> <<[timestamp |-> 30]>>],
               [GPS |-> <<>>],
               [k \in {} |-> <<>>] }

\* Every series of at most MaxRecords records of the set records.
SeriesOf(records) == UNION { [1..n -> records] : n \in 0..MaxRecords }

\* Logs with every GPS, ATT or BAT series of those records, next to the logs
\* of FlightDataSet.
InfoFlightDataSet ==
    FlightDataSet
        \cup { [GPS |-> g] : g \in SeriesOf(GpsRecords) }
        \cup { [ATT |-> a] : a \in SeriesOf(AttRecords) }
        \cup { [BAT |-> b] : b \in SeriesOf(BatRecords) }

(***************************************************************************)
(* JavaScript values                                                       *)
(***************************************************************************)
Null == <<>>
Undefined == <<>>
Some(v) == <<v>>

\* obj.f: the field's value, undefined when obj has no such key.
Field(obj, f) == IF f \in DOMAIN obj THEN Some(obj[f]) ELSE Undefined

WhiteSpace == {" ", "\t", "\n"}

RECURSIVE TrimStart(_)
TrimStart(s) ==
    IF Len(s) > 0 /\ s[1] \in WhiteSpace THEN TrimStart(Tail(s)) ELSE s

RECURSIVE TrimEnd(_)
TrimEnd(s) ==
    IF Len(s) > 0 /\ s[Len(s)] \in WhiteSpace
    THEN TrimEnd(SubSeq(s, 1, Len(s) - 1))
    ELSE s

\* String.prototype.trim
Trim(s) == TrimEnd(TrimStart(s))

Digits == <<"0", "1", "2", "3", "4", "5", "6", "7", "8", "9">>

\* Number.prototype.toString of a non-negative integer.
RECURSIVE NatToString(_)
NatToString(n) ==
    IF n < 10 THEN <<Digits[n + 1]>>
    ELSE NatToString(n \div 10) \o <<Digits[(n % 10) + 1]>>

\* Variant that cuts the digits after the first decimal instead of rounding.
ToFixed1Truncating(h) ==
    LET a == IF h < 0 THEN -h ELSE h
        n == a \div 10
    IN  (IF h < 0 THEN <<"-">> ELSE <<>>)
            \o NatToString(n \div 10) \o <<".">> \o <<Digits[(n % 10) + 1]>>

\* x.toFixed(1) of x = h/100: the sign, then the tenths nearest to |x|, the
\* larger on a tie (exact for the ties the model uses, the multiples of 0.25).
ToFixed1(h) ==
    LET a == IF h < 0 THEN -h ELSE h
        n == (a + 5) \div 10
    IN  (IF h < 0 THEN <<"-">> ELSE <<>>)
            \o NatToString(n \div 10) \o <<".">> \o <<Digits[(n % 10) + 1]>>

\* Math.min(...xs) and Math.max(...xs) of a non-empty array.
MathMin(xs) == CHOOSE m \in {xs[i] : i \in 1..Len(xs)} : \A i \in 1..Len(xs) : m <= xs[i]
MathMax(xs) == CHOOSE m \in {xs[i] : i \in 1..Len(xs)} : \A i \in 1..Len(xs) : m >= xs[i]

\* a % b of JavaScript for b > 0: the remainder has the sign of a.
JsRemainder(a, b) == IF a >= 0 THEN a % b ELSE -((-a) % b)

\* Number.prototype.toString of an integer.
IntToString(n) == IF n < 0 THEN <<"-">> \o NatToString(-n) ELSE NatToString(n)

(***************************************************************************)
(* Fixed texts                                                             *)
(***************************************************************************)
\* 'Sorry, there was an error processing your message.'
FallbackText ==
    <<
       "S","o","r","r","y",","," ","t","h","e","r","e"," ","w","a","s"," ",
       "a","n"," ","e","r","r","o","r"," ","p","r","o","c","e","s","s","i",
       "n","g"," ","y","o","u","r"," ","m","e","s","s","a","g","e","."
    >>

\* 'Flight data loaded! You can ask me questions about your flight, such as:\n'
\* followed by the six example questions, one per line.
GreetingText ==
    <<
       "F","l","i","g","h","t"," ","d","a","t","a"," ","l","o","a","d","e",
       "d","!"," ","Y","o","u"," ","c","a","n"," ","a","s","k"," ","m","e",
       " ","q","u","e","s","t","i","o","n","s"," ","a","b","o","u","t"," ",
       "y","o","u","r"," ","f","l","i","g","h","t",","," ","s","u","c","h",
       " ","a","s",":","\n","-"," ","W","h","a","t"," ","w","a","s"," ","t",
       "h","e"," ","h","i","g","h","e","s","t"," ","a","l","t","i","t","u",
       "d","e"," ","r","e","a","c","h","e","d","?","\n","-"," ","W","h","e",
       "n"," ","d","i","d"," ","t","h","e"," ","G","P","S"," ","s","i","g",
       "n","a","l"," ","f","i","r","s","t"," ","g","e","t"," ","l","o","s",
       "t","?","\n","-"," ","W","h","a","t"," ","w","a","s"," ","t","h","e",
       " ","m","a","x","i","m","u","m"," ","b","a","t","t","e","r","y"," ",
       "t","e","m","p","e","r","a","t","u","r","e","?","\n","-"," ","H","o",
       "w"," ","l","o","n","g"," ","w","a","s"," ","t","h","e"," ","t","o",
       "t","a","l"," ","f","l","i","g","h","t"," ","t","i","m","e","?","\n",
       "-"," ","L","i","s","t"," ","a","l","l"," ","c","r","i","t","i","c",
       "a","l"," ","e","r","r","o","r","s"," ","t","h","a","t"," ","h","a",
       "p","p","e","n","e","d"," ","m","i","d","-","f","l","i","g","h","t",
       ".","\n","-"," ","W","h","e","n"," ","w","a","s"," ","t","h","e"," ",
       "f","i","r","s","t"," ","i","n","s","t","a","n","c","e"," ","o","f",
       " ","R","C"," ","s","i","g","n","a","l"," ","l","o","s","s","?"
    >>

\* Variant that pushes the trimmed text.
UserMessageTrimmed(text) == [role |-> "user", content |-> Some(Trim(text))]

UserMessage(text) == [role |-> "user", content |-> Some(text)]
FallbackMessage == [role |-> "assistant", content |-> Some(FallbackText)]
GreetingMessage == [role |-> "assistant", content |-> Some(GreetingText)]

(***************************************************************************)
(* computed and methods                                                    *)
(***************************************************************************)
\* computed.hasFlightData of a flightData value: Object.keys(fd).length > 0
HasKeys(fd) == Cardinality(DOMAIN fd) > 0

hasFlightData == HasKeys(flightData)

\* series.map(msg => msg[f]).filter(v => v !== undefined)
DefinedValues(series, f) ==
    LET mapped == [i \in 1..Len(series) |-> Field(series[i], f)]
        kept   == SelectSeq(mapped, LAMBDA v : v # Undefined)
    IN  [i \in 1..Len(kept) |-> kept[i][1]]

\* `${min.toFixed(1)}${unit} - ${max.toFixed(1)}${unit}`
RangeText(values, unit) ==
    ToFixed1(MathMin(values)) \o <<unit>> \o <<" ", "-", " ">>
        \o ToFixed1(MathMax(values)) \o <<unit>>

\* Variant that subtracts the last timestamp from the first.
DurationAfterReversed(fd, before) ==
    IF "GPS" \in DOMAIN fd /\ Len(fd.GPS) > 0
    THEN Some(fd.GPS[1].timestamp - fd.GPS[Len(fd.GPS)].timestamp)
    ELSE before

\* The value updateFlightInfo leaves in flightDuration, given the prop fd and
\* the field's value before the call.
DurationAfter(fd, before) ==
    IF "GPS" \in DOMAIN fd /\ Len(fd.GPS) > 0
    THEN Some(fd.GPS[Len(fd.GPS)].timestamp - fd.GPS[1].timestamp)
    ELSE before

\* The value updateFlightInfo leaves in altitudeRange (key "ATT", field "alt",
\* unit "m") or batteryRange (key "BAT", field "volt", unit "V").
RangeAfter(fd, key, f, unit, before) ==
    IF key \in DOMAIN fd /\ Len(fd[key]) > 0
    THEN LET values == DefinedValues(fd[key], f)
         IN  IF Len(values) > 0 THEN Some(RangeText(values, unit)) ELSE before
    ELSE before

\* methods.updateFlightInfo, run while the prop is fd.
updateFlightInfo(fd) ==
    IF ~HasKeys(fd)
    THEN UNCHANGED <<flightDuration, altitudeRange, batteryRange>>
    ELSE /\ flightDuration' = DurationAfter(fd, flightDuration)
         /\ altitudeRange' = RangeAfter(fd, "ATT", "alt", "m", altitudeRange)
         /\ batteryRange' = RangeAfter(fd, "BAT", "volt", "V", batteryRange)

\* Variant of the handler that unsets the summary fields on an empty log.
FlightDataHandlerClearsOnEmpty(newData) ==
    IF HasKeys(newData)
    THEN /\ updateFlightInfo(newData)
         /\ messages' = IF Len(messages) = 0
                        THEN Append(messages, GreetingMessage)
                        ELSE messages
    ELSE /\ flightDuration' = Null
         /\ altitudeRange' = Null
         /\ batteryRange' = Null
         /\ UNCHANGED messages

\* Variant of the handler that greets on every load.
FlightDataHandlerAlwaysGreets(newData) ==
    IF HasKeys(newData)
    THEN /\ updateFlightInfo(newData)
         /\ messages' = Append(messages, GreetingMessage)
    ELSE UNCHANGED <<messages, flightDuration, altitudeRange, batteryRange>>

\* watch.flightData.handler(newData), run while the prop is newData.
FlightDataHandler(newData) ==
    IF HasKeys(newData)
    THEN /\ updateFlightInfo(newData)
         /\ messages' = IF Len(messages) = 0
                        THEN Append(messages, GreetingMessage)
                        ELSE messages
    ELSE UNCHANGED <<messages, flightDuration, altitudeRange, batteryRange>>

\* Variants of the guard with one of its three tests left out.
SendReturnsEarlyNoBusy == Len(Trim(newMessage)) = 0 \/ ~hasFlightData
SendReturnsEarlyNoData == Len(Trim(newMessage)) = 0 \/ isLoading

\* Variant that rounds the minutes to the nearest instead of down.
formatDurationRounding(seconds) ==
    IntToString((seconds + 30) \div 60) \o <<"m", " ">>
        \o IntToString(JsRemainder(seconds, 60)) \o <<"s">>

\* methods.formatDuration of an integer number of seconds:
\* `${Math.floor(seconds / 60)}m ${Math.floor(seconds % 60)}s`
formatDuration(seconds) ==
    IntToString(seconds \div 60) \o <<"m", " ">>
        \o IntToString(JsRemainder(seconds, 60)) \o <<"s">>

\* The text of the Duration badge; undefined when the template does not
\* render it (v-if="hasFlightData" around v-if="flightDuration": null and 0
\* are falsy).
DurationBadge ==
    IF hasFlightData /\ flightDuration # Null /\ flightDuration[1] # 0
    THEN Some(formatDuration(flightDuration[1]))
    ELSE Undefined

\* The guard of sendMessage: the condition under which it returns at once.
SendReturnsEarly == Len(Trim(newMessage)) = 0 \/ isLoading \/ ~hasFlightData

\* Variant of the body that leaves the session id out.
PostBodyNoSession(userMessage) == [message |-> userMessage, sessionId |-> Null]

\* The body of the request sendMessage posts.
PostBody(userMessage) == [message |-> userMessage, sessionId |-> sessionId]

\* A request as posted: not settled yet.
Posted(body) == [body |-> body, status |-> "pending", response |-> Undefined]

\* The requests that have not settled.
InFlight == {i \in 1..Len(requests) : requests[i].status = "pending"}

\* The message list after the awaited post resolved with response: reading
\* response.data.response throws when data is null/undefined, and the catch
\* block pushes the fallback.
MessagesAfterResolve(response) ==
    IF response.data = Undefined
    THEN Append(messages, FallbackMessage)
    ELSE Append(messages, [role |-> "assistant",
                           content |-> Field(response.data[1], "response")])

\* Variant of the catch block that only logs the error.
MessagesAfterRejectSilent == messages

\* Variant of the catch block that puts the fallback in the place of the
\* user's message.
MessagesAfterRejectReplacing ==
    [messages EXCEPT ![Len(messages)] = FallbackMessage]

\* The message list after the awaited post rejected (catch block).
MessagesAfterReject == Append(messages, FallbackMessage)

\* Variant without the finally block: the flag is left as it is.
LoadingAfterSettleKept == isLoading

\* The busy flag after the finally block.
LoadingAfterSettle == FALSE

\* What a request can resolve with: no body, a body without `response`,
\* a body with a `response` string.
Responses ==
    { [data |-> Undefined], [data |-> Some([error |-> <<"n","o">>])] }
        \cup { [data |-> Some([response |-> r])] : r \in Replies }

(***************************************************************************)
(* Initial state and actions                                               *)
(***************************************************************************)
\* data(), with the prop as the parent first passes it.
Init ==
    /\ lifecycle = "data"
    /\ flightData \in FlightDataSet
    /\ messages = <<>>
    /\ newMessage = <<>>
    /\ isLoading = FALSE
    /\ sessionId = Null
    /\ flightDuration = Null
    /\ altitudeRange = Null
    /\ batteryRange = Null
    /\ requests = <<>>

\* data(), with the prop first passed as a log of the set logs.
DataWith(logs) ==
    /\ lifecycle = "data"
    /\ flightData \in logs
    /\ messages = <<>>
    /\ newMessage = <<>>
    /\ isLoading = FALSE
    /\ sessionId = Null
    /\ flightDuration = Null
    /\ altitudeRange = Null
    /\ batteryRange = Null
    /\ requests = <<>>

\* Variant of the watcher without immediate: true: nothing runs at creation.
WatchNotImmediate ==
    /\ lifecycle = "data"
    /\ lifecycle' = "created"
    /\ UNCHANGED <<flightData, messages, newMessage, isLoading, sessionId,
                   flightDuration, altitudeRange, batteryRange, requests>>

\* watch.flightData with immediate: true: the handler runs once with the
\* initial prop while the instance is being created.
WatchImmediate ==
    /\ lifecycle = "data"
    /\ lifecycle' = "created"
    /\ FlightDataHandler(flightData)
    /\ UNCHANGED <<flightData, newMessage, isLoading, sessionId, requests>>

\* mounted()
Mounted ==
    /\ lifecycle = "created"
    /\ lifecycle' = "mounted"
    /\ \E now \in Clock : sessionId' = Some(NatToString(now))
    /\ UNCHANGED <<flightData, messages, newMessage, isLoading,
                   flightDuration, altitudeRange, batteryRange, requests>>

\* Variant in which a new log also resets the busy flag.
ReplaceFlightDataResetting(logs) ==
    /\ lifecycle = "mounted"
    /\ \E newData \in logs :
          /\ flightData' = newData
          /\ FlightDataHandler(newData)
    /\ isLoading' = FALSE
    /\ UNCHANGED <<lifecycle, newMessage, sessionId, requests>>

\* The parent replaces the prop by a log of the set logs; the watcher's
\* handler runs with the new value.
ReplaceFlightData(logs) ==
    /\ lifecycle = "mounted"
    /\ \E newData \in logs :
          /\ flightData' = newData
          /\ FlightDataHandler(newData)
    /\ UNCHANGED <<lifecycle, newMessage, isLoading, sessionId, requests>>

FlightDataChange == ReplaceFlightData(FlightDataSet)

\* v-model: the input's text is written to newMessage.
SetNewMessage ==
    /\ lifecycle = "mounted"
    /\ \E text \in Inputs : newMessage' = text
    /\ UNCHANGED <<lifecycle, flightData, messages, isLoading, sessionId,
                   flightDuration, altitudeRange, batteryRange, requests>>

\* Variant of sendMessage that does not set the busy flag.
SendMessageNotBusy ==
    /\ lifecycle = "mounted"
    /\ IF SendReturnsEarly
       THEN UNCHANGED vars
       ELSE /\ Len(requests) < MaxSends
            /\ newMessage' = <<>>
            /\ messages' = Append(messages, UserMessage(newMessage))
            /\ requests' = Append(requests, Posted(PostBody(newMessage)))
            /\ UNCHANGED <<lifecycle, flightData, isLoading, sessionId,
                           flightDuration, altitudeRange, batteryRange>>

\* methods.sendMessage up to its await: the guard, then the synchronous part
\* and the post.
SendMessage ==
    /\ lifecycle = "mounted"
    /\ IF SendReturnsEarly
       THEN UNCHANGED vars
       ELSE /\ Len(requests) < MaxSends
            /\ newMessage' = <<>>
            /\ isLoading' = TRUE
            /\ messages' = Append(messages, UserMessage(newMessage))
            /\ requests' = Append(requests, Posted(PostBody(newMessage)))
            /\ UNCHANGED <<lifecycle, flightData, sessionId,
                           flightDuration, altitudeRange, batteryRange>>

\* methods.sendMessage after its await, the post having resolved.
RequestResolved ==
    /\ \E i \in InFlight, response \in Responses :
          /\ requests' = [requests EXCEPT ![i].status = "resolved",
                                          ![i].response = Some(response)]
          /\ messages' = MessagesAfterResolve(response)
    /\ isLoading' = LoadingAfterSettle
    /\ UNCHANGED <<lifecycle, flightData, newMessage, sessionId,
                   flightDuration, altitudeRange, batteryRange>>

\* Variant of the rejection that posts the same body once more.
RequestRejectedRetrying ==
    /\ \E i \in InFlight :
          requests' = IF Len(requests) < MaxSends
                      THEN Append([requests EXCEPT ![i].status = "rejected"],
                                  Posted(requests[i].body))
                      ELSE [requests EXCEPT ![i].status = "rejected"]
    /\ messages' = MessagesAfterReject
    /\ isLoading' = LoadingAfterSettle
    /\ UNCHANGED <<lifecycle, flightData, newMessage, sessionId,
                   flightDuration, altitudeRange, batteryRange>>

\* methods.sendMessage after its await, the post having rejected.
RequestRejected ==
    /\ \E i \in InFlight :
          requests' = [requests EXCEPT ![i].status = "rejected"]
    /\ messages' = MessagesAfterReject
    /\ isLoading' = LoadingAfterSettle
    /\ UNCHANGED <<lifecycle, flightData, newMessage, sessionId,
                   flightDuration, altitudeRange, batteryRange>>

Next ==
    \/ WatchImmediate
    \/ Mounted
    \/ FlightDataChange
    \/ SetNewMessage
    \/ SendMessage
    \/ RequestResolved
    \/ RequestRejected

Spec == Init /\ [][Next]_vars

\* Every posted request settles (the network answers or fails in the end).
Settle == RequestResolved \/ RequestRejected

FairSpec == Spec /\ WF_vars(Settle)

\* The component fed the logs of InfoFlightDataSet, to exercise
\* updateFlightInfo on every short series.
InfoInit == DataWith(InfoFlightDataSet)

InfoFlightDataChange == ReplaceFlightData(InfoFlightDataSet)

InfoNext ==
    \/ WatchImmediate
    \/ Mounted
    \/ InfoFlightDataChange

InfoSpec == InfoInit /\ [][InfoNext]_vars

\* The component fed the logs of DurationFlightDataSet, to exercise
\* formatDuration and the Duration badge on every duration.
DurationInit == DataWith(DurationFlightDataSet)

DurationFlightDataChange == ReplaceFlightData(DurationFlightDataSet)

DurationNext ==
    \/ WatchImmediate
    \/ Mounted
    \/ DurationFlightDataChange

DurationSpec == DurationInit /\ [][DurationNext]_vars

(***************************************************************************)
(* Properties                                                              *)
(***************************************************************************)
\* s is empty or holds only white space.
IsBlank(s) == \A i \in 1..Len(s) : s[i] \in {" ", "\t", "\n"}

\* s is an initial part of t.
IsPrefix(s, t) == Len(s) <= Len(t) /\ SubSeq(t, 1, Len(s)) = s

\* The positions of the user messages in the message list.
UserPositions == {i \in 1..Len(messages) : messages[i].role = "user"}

TheFallback == [role |-> "assistant", content |-> <<FallbackText>>]

\* C1: in every reachable state at most one chat request is in flight, and
\* while one is in flight no step posts a request: not a sendMessage call, and
\* not the step that settles it either (nothing was queued for later).
C1_AtMostOneInFlight ==
    /\ [](Cardinality(InFlight) <= 1)
    /\ [][InFlight # {} => Len(requests') = Len(requests)]_vars

\* A request is in flight while everything else would let a send through.
C1_SendWhileInFlight ==
    /\ lifecycle = "mounted"
    /\ Cardinality(InFlight) = 1
    /\ ~IsBlank(newMessage)
    /\ DOMAIN flightData # {}
    /\ Len(requests) < MaxSends

\* C2: a sendMessage call made while the input text is blank, or a request is
\* in flight, or flightData is the empty mapping changes nothing: messages,
\* newMessage, isLoading, sessionId and the summary fields stay as they are
\* and no request is posted.
C2_SendIsNoOp ==
    [][(SendMessage /\ (IsBlank(newMessage) \/ InFlight # {} \/ DOMAIN flightData = {}))
          => UNCHANGED vars]_vars

\* Non-blank text and no request in flight, but no flight data: only the
\* flight-data test stops a send.
C2_TextButNoFlightData ==
    /\ lifecycle = "mounted"
    /\ ~IsBlank(newMessage)
    /\ InFlight = {}
    /\ DOMAIN flightData = {}
    /\ Len(messages) >= 3
    /\ Len(requests) < MaxSends

\* C3: the step in which a posted request fails appends exactly one message,
\* the assistant's fixed fallback, and leaves the busy flag false.
C3_FailureAppendsFallback ==
    [][\A i \in 1..Len(requests) :
          (requests[i].status = "pending" /\ requests'[i].status = "rejected")
             => /\ messages' = Append(messages, TheFallback)
                /\ isLoading' = FALSE]_vars

\* A request has failed and its fallback is the last message.
C3_FailedAndAnswered ==
    /\ \E i \in 1..Len(requests) : requests[i].status = "rejected"
    /\ Len(messages) >= 2
    /\ messages[Len(messages)] = TheFallback
    /\ messages[Len(messages) - 1].role = "user"
    /\ ~isLoading

TheGreeting == [role |-> "assistant", content |-> <<GreetingText>>]

\* C4: if every posted request settles, a true busy flag always becomes
\* false again; once no request is in flight the flag is false, and a
\* sendMessage call with non-blank text and non-empty flightData goes through
\* (it posts a request), whatever failed before.
C4_NeverLocked ==
    /\ isLoading ~> ~isLoading
    /\ [](InFlight = {} => ~isLoading)
    /\ []((/\ lifecycle = "mounted"
           /\ InFlight = {}
           /\ ~IsBlank(newMessage)
           /\ DOMAIN flightData # {}
           /\ Len(requests) < MaxSends)
             => ENABLED (SendMessage /\ Len(requests') = Len(requests) + 1))

\* A send was accepted after an earlier request had failed.
C4_AcceptedAfterFailure ==
    /\ Len(requests) >= 2
    /\ requests[1].status = "rejected"
    /\ requests[2].status = "pending"
    /\ isLoading

\* C5: the greeting is appended exactly once.  Whenever flightData is
\* non-empty the greeting is the first message; it is nowhere else in the
\* list; and a step appends it only to an empty list, on a load of a
\* non-empty flightData.
C5_GreetingOnce ==
    /\ []((lifecycle # "data" /\ DOMAIN flightData # {})
            => (Len(messages) >= 1 /\ messages[1] = TheGreeting))
    /\ [](\A i \in 2..Len(messages) : messages[i] # TheGreeting)
    /\ [][(Len(messages') > Len(messages) /\ messages'[Len(messages')] = TheGreeting)
            => (messages = <<>> /\ DOMAIN flightData' # {})]_vars

\* Messages were exchanged and flightData was loaded at least twice since
\* (the altitude range stems from a log other than the current, GPS-only one).
C5_ReloadedAfterChat ==
    /\ DOMAIN flightData = {"GPS"}
    /\ altitudeRange # <<>>
    /\ Len(messages) >= 3
    /\ messages[1] = TheGreeting

\* C6: the message list is append-only: across every step the list before
\* is an initial part of the list after.
C6_AppendOnly == [][IsPrefix(messages, messages')]_vars

\* The list has grown by the greeting and two complete exchanges, one of
\* them failed.
C6_TwoExchanges ==
    /\ Len(messages) >= 5
    /\ \E i \in 1..Len(requests) : requests[i].status = "rejected"
    /\ \E i \in 1..Len(requests) : requests[i].status = "resolved"

\* C7: once the watcher has run on a non-empty flightData, the summary
\* fields are those computed from that flightData alone: each equals what
\* updateFlightInfo yields from unset fields, so a field whose series is
\* missing (no GPS record, no ATT record with alt, no BAT record with volt)
\* is unset.
C7_SummaryFromCurrentData ==
    (lifecycle # "data" /\ DOMAIN flightData # {})
       => /\ flightDuration = DurationAfter(flightData, <<>>)
          /\ altitudeRange = RangeAfter(flightData, "ATT", "alt", "m", <<>>)
          /\ batteryRange = RangeAfter(flightData, "BAT", "volt", "V", <<>>)

\* The response has no body, or a body without a `response` field.
IsMalformed(response) ==
    response.data = <<>> \/ "response" \notin DOMAIN response.data[1]

\* C8: a request that resolves with a malformed body appends the fallback
\* like any other failure, and no assistant message ever has undefined
\* content.
C8_MalformedBodyFallsBack ==
    /\ [](\A i \in 1..Len(messages) :
             messages[i].role = "assistant" => messages[i].content # <<>>)
    /\ [][\A i \in 1..Len(requests) :
             (/\ requests[i].status = "pending"
              /\ requests'[i].status = "resolved"
              /\ IsMalformed(requests'[i].response[1]))
                => messages' = Append(messages, TheFallback)]_vars

\* C9: sessionId is unset until mount, set by mount and never changes
\* afterwards; every request posted carries it, and it is not null.
C9_SessionIdFixed ==
    /\ [](lifecycle = "mounted" <=> sessionId # <<>>)
    /\ [][lifecycle = "mounted" => sessionId' = sessionId]_vars
    /\ [](\A i \in 1..Len(requests) :
             /\ requests[i].body.sessionId # <<>>
             /\ requests[i].body.sessionId = sessionId)

\* Two requests were posted, one of them failed, and flightData has been
\* replaced by the empty mapping since.
C9_TwoPostsThenUnload ==
    /\ Len(requests) >= 2
    /\ \E i \in 1..Len(requests) : requests[i].status = "rejected"
    /\ DOMAIN flightData = {}
    /\ requests[1].body.sessionId = requests[2].body.sessionId

\* C10: in every reachable state the number of requests posted equals the
\* number of user messages in the list: one post per accepted send, none
\* after a failure.
C10_OnePostPerSend == Len(requests) = Cardinality(UserPositions)

\* Two sends were accepted and both requests failed.
C10_TwoFailedSends ==
    /\ Len(requests) = 2
    /\ \A i \in 1..Len(requests) : requests[i].status = "rejected"
    /\ Cardinality(UserPositions) = 2

\* C11: once the watcher has run on a flightData whose GPS series has at
\* least one record, flightDuration is set to the last record's timestamp
\* minus the first record's; for a series of one record it is set to 0.
C11_DurationIsLastMinusFirst ==
    (lifecycle # "data" /\ "GPS" \in DOMAIN flightData /\ Len(flightData.GPS) >= 1)
       => /\ flightDuration =
                <<flightData.GPS[Len(flightData.GPS)].timestamp
                     - flightData.GPS[1].timestamp>>
          /\ (Len(flightData.GPS) = 1 => flightDuration = <<0>>)

\* A GPS series of three records whose first and last timestamps differ has
\* replaced another log.
C11_ThreeRecordDuration ==
    /\ lifecycle = "mounted"
    /\ "GPS" \in DOMAIN flightData
    /\ Len(flightData.GPS) = 3
    /\ flightData.GPS[1].timestamp < flightData.GPS[3].timestamp
    /\ flightDuration = <<125>>
    /\ altitudeRange # <<>>

\* The values of field f in the records of flightData's series key that
\* define it.
DefinedIn(key, f) ==
    IF key \in DOMAIN flightData
    THEN { flightData[key][i][f] :
              i \in { j \in 1..Len(flightData[key]) : f \in DOMAIN flightData[key][j] } }
    ELSE {}

\* The range text of the smallest and largest of those values; unset when
\* there is none.
RangeOfDefined(key, f, unit) ==
    LET values == DefinedIn(key, f)
        lo == CHOOSE v \in values : \A w \in values : v <= w
        hi == CHOOSE v \in values : \A w \in values : v >= w
    IN  IF values = {} THEN <<>>
        ELSE <<ToFixed1(lo) \o <<unit, " ", "-", " ">> \o ToFixed1(hi) \o <<unit>>>>

\* C12: once the watcher has run on a non-empty flightData, altitudeRange is
\* the range of the alt values of the ATT records that define alt and
\* batteryRange the range of the volt values of the BAT records that define
\* volt; a range is unset when its series is absent, empty or has no record
\* defining the field.
C12_RangesFromDefiningRecords ==
    (lifecycle # "data" /\ DOMAIN flightData # {})
       => /\ altitudeRange = RangeOfDefined("ATT", "alt", "m")
          /\ batteryRange = RangeOfDefined("BAT", "volt", "V")

\* The same with the unset case left out: what holds of the ranges whenever
\* the current log has a record defining the field.
RangesWhereDefined ==
    (lifecycle # "data" /\ DOMAIN flightData # {})
       => /\ DefinedIn("ATT", "alt") # {} => altitudeRange = RangeOfDefined("ATT", "alt", "m")
          /\ DefinedIn("BAT", "volt") # {} => batteryRange = RangeOfDefined("BAT", "volt", "V")

\* flightData.ATT is [{alt: 1.0}, {alt: 5.25}, {}].
AttIsTheExample ==
    /\ "ATT" \in DOMAIN flightData
    /\ Len(flightData.ATT) = 3
    /\ DOMAIN flightData.ATT[1] = {"alt"} /\ flightData.ATT[1].alt = 100
    /\ DOMAIN flightData.ATT[2] = {"alt"} /\ flightData.ATT[2].alt = 525
    /\ DOMAIN flightData.ATT[3] = {}

\* C13 as stated: with ATT records [{alt: 1.0}, {alt: 5.25}, {}] the altitude
\* range renders as "1.0m - 5.25m".
C13_RendersTwoDecimals ==
    (lifecycle # "data" /\ AttIsTheExample)
       => altitudeRange = << <<"1", ".", "0", "m", " ", "-", " ", "5", ".", "2", "5", "m">> >>

\* C13, amended: with ATT records [{alt: 1.0}, {alt: 5.25}, {}] the altitude
\* range renders as "1.0m - 5.3m": both ends have one decimal place, 5.25
\* rounding to 5.3, and the record without alt is ignored.
C13_RendersOneDecimal ==
    (lifecycle # "data" /\ AttIsTheExample)
       => altitudeRange = << <<"1", ".", "0", "m", " ", "-", " ", "5", ".", "3", "m">> >>

\* The example log is loaded and its range is shown.
C13_ExampleLoaded ==
    /\ lifecycle = "mounted"
    /\ AttIsTheExample
    /\ DOMAIN flightData = {"ATT"}
    /\ altitudeRange # <<>>

\* C14: the step that posts a request also clears the input, sets the busy
\* flag and appends one user message whose content is the input text as it
\* was typed, and the posted body's message is that same text; a step
\* appends an assistant message to a non-empty list only when it settles a
\* request, and while a request is in flight the user's message is still the
\* last one.
C14_TwoStepAppend ==
    /\ [][Len(requests') = Len(requests) + 1
            => /\ newMessage' = <<>>
               /\ isLoading'
               /\ messages' = Append(messages, [role |-> "user", content |-> <<newMessage>>])
               /\ requests'[Len(requests')].body.message = newMessage
               /\ requests'[Len(requests')].status = "pending"]_vars
    /\ [][(/\ Len(messages) >= 1
           /\ Len(messages') > Len(messages)
           /\ messages'[Len(messages')].role = "assistant")
            => \E i \in 1..Len(requests) :
                  requests[i].status = "pending" /\ requests'[i].status # "pending"]_vars
    /\ [](\A i \in 1..Len(requests) :
             requests[i].status = "pending"
                => /\ messages[Len(messages)].role = "user"
                   /\ messages[Len(messages)].content = <<requests[i].body.message>>)

\* A send of " hi " is in flight: the input is empty, the flag is set and
\* the untrimmed text is the last message.
C14_UntrimmedInFlight ==
    /\ InFlight # {}
    /\ newMessage = <<>>
    /\ isLoading
    /\ messages[Len(messages)] = [role |-> "user", content |-> << <<" ", "h", "i", " ">> >>]

\* The message list without the greeting.
Exchange == SelectSeq(messages, LAMBDA m : m # TheGreeting)

\* C15: ignoring the greeting, the messages alternate user, assistant, user,
\* ... starting with a user message, and the user messages outnumber the
\* assistant messages by one exactly when the busy flag is true and by none
\* exactly when it is false.
C15_Alternation ==
    LET users == Cardinality({i \in 1..Len(Exchange) : Exchange[i].role = "user"})
        assistants == Cardinality({i \in 1..Len(Exchange) : Exchange[i].role = "assistant"})
    IN  /\ \A i \in 1..Len(Exchange) :
              Exchange[i].role = IF i % 2 = 1 THEN "user" ELSE "assistant"
        /\ users - assistants \in {0, 1}
        /\ (users - assistants = 1) <=> isLoading

\* The greeting, one complete exchange and the user message of a second one.
C15_SecondSendInFlight ==
    /\ Len(messages) = 4
    /\ messages[1] = TheGreeting
    /\ messages[3].role = "assistant"
    /\ isLoading

\* C16: a non-empty message list starts with the greeting, so every user
\* message comes after it; and a step posts a request only when flightData
\* is non-empty and the greeting is already in the list.
C16_GreetingFirst ==
    /\ [](Len(messages) >= 1 => messages[1] = TheGreeting)
    /\ [](\A i \in UserPositions : i >= 2)
    /\ [][Len(requests') > Len(requests)
            => /\ DOMAIN flightData # {}
               /\ Len(messages) >= 1
               /\ messages[1] = TheGreeting]_vars

\* A user message directly follows the greeting.
C16_UserAfterGreeting ==
    /\ Len(messages) >= 2
    /\ messages[1] = TheGreeting
    /\ messages[2].role = "user"
    /\ Len(requests) >= 1

\* C17: a replacement of flightData (by an empty or a non-empty mapping)
\* made while a request is in flight leaves the busy flag, the message list
\* and the requests as they are; the flag is true as long as a request is in
\* flight; and the step that settles a request, whatever happened to
\* flightData meanwhile, appends one assistant message (the fallback on a
\* rejection, the reply on a response carrying one) and clears the flag.
C17_UndisturbedExchange ==
    /\ [][(InFlight # {} /\ (FlightDataChange \/ flightData' # flightData))
            => UNCHANGED <<isLoading, messages, requests>>]_vars
    /\ [](InFlight # {} => isLoading)
    /\ [][\A i \in 1..Len(requests) :
            (requests[i].status = "pending" /\ requests'[i].status # "pending")
               => /\ Len(messages') = Len(messages) + 1
                  /\ SubSeq(messages', 1, Len(messages)) = messages
                  /\ messages'[Len(messages')].role = "assistant"
                  /\ requests'[i].status = "rejected"
                        => messages'[Len(messages')] = TheFallback
                  /\ (/\ requests'[i].status = "resolved"
                      /\ ~IsMalformed(requests'[i].response[1]))
                        => messages'[Len(messages')].content
                              = <<requests'[i].response[1].data[1].response>>
                  /\ ~isLoading']_vars

\* flightData was replaced by the empty mapping while a request is in
\* flight (a send needs a non-empty one).
C17_UnloadedInFlight ==
    /\ InFlight # {}
    /\ DOMAIN flightData = {}
    /\ isLoading
    /\ messages[Len(messages)].role = "user"

\* C18: a step that posts or settles a request changes neither flightData,
\* nor the summary fields, nor sessionId; a step that changes flightData
\* changes neither newMessage, nor isLoading, nor sessionId; and a step that
\* changes flightData to the empty mapping changes nothing else at all.
C18_Frames ==
    /\ [][requests' # requests
            => UNCHANGED <<flightData, flightDuration, altitudeRange,
                           batteryRange, sessionId>>]_vars
    /\ [][flightData' # flightData
            => UNCHANGED <<newMessage, isLoading, sessionId>>]_vars
    /\ [][(flightData' # flightData /\ DOMAIN flightData' = {})
            => UNCHANGED <<lifecycle, messages, newMessage, isLoading, sessionId,
                           flightDuration, altitudeRange, batteryRange,
                           requests>>]_vars

\* flightData is the empty mapping again, and the summary fields, the
\* messages and the typed text of before are still there.
C18_UnloadedKeepsState ==
    /\ DOMAIN flightData = {}
    /\ flightDuration # <<>>
    /\ altitudeRange # <<>>
    /\ Len(messages) >= 3
    /\ ~IsBlank(newMessage)

\* C19: for the duration s >= 0 the component holds, formatDuration(s) is
\* "<m>m <r>s" for the m and r with 60*m + r = s and 0 <= r <= 59 (so
\* m = s div 60 and r = s mod 60); the Duration badge is rendered only when
\* flightData is non-empty and the duration is set and not 0, with that
\* text; a duration of 0 is set but not rendered.
C19_FormatAndBadge ==
    /\ flightDuration # <<>> /\ flightDuration[1] >= 0
          => LET s == flightDuration[1]
             IN  \E m \in 0..s, r \in 0..59 :
                    /\ 60 * m + r = s
                    /\ m = s \div 60
                    /\ r = s % 60
                    /\ formatDuration(s)
                          = NatToString(m) \o <<"m", " ">> \o NatToString(r) \o <<"s">>
    /\ DurationBadge # <<>>
          => /\ DOMAIN flightData # {}
             /\ flightDuration # <<>>
             /\ flightDuration[1] # 0
             /\ DurationBadge = <<formatDuration(flightDuration[1])>>
    /\ (/\ lifecycle # "data"
        /\ "GPS" \in DOMAIN flightData
        /\ Len(flightData.GPS) = 1)
          => (flightDuration = <<0>> /\ DurationBadge = <<>>)

\* A flight of 125 units is shown as "2m 5s".
C19_TwoMinutesFive ==
    /\ flightDuration = <<125>>
    /\ DurationBadge = << <<"2", "m", " ", "5", "s">> >>

====
